---- MODULE Spec2Model ----
\* pydacc: data cleaning, feature reconciliation, k-means training, the
\* auto-k search and label assignment, modelled from src/pydacc/*.py.
EXTENDS Integers, Sequences, FiniteSets, TLC

VARIABLES
    pc,                     \* position of the call being modelled
    \* arguments of clean_data / train_clustering_model / automl_clustering
    csv,                    \* the DataFrame pd.read_csv produces from path_to_csv
    drop_columns,           \* drop_columns (None or a list of names)
    column_drop_threshold,  \* column_drop_threshold, a fraction num/den
    categorical_columns,    \* categorical_columns (None or a list)
    numerical_columns,      \* numerical_columns (None or a list)
    ignore_features,        \* ignore_features (None or a list)
    save_model,             \* save_model (boolean)
    file_name,              \* file_name (string)
    \* clean_data
    ret,                    \* what clean_data returned (or raised)
    ret2,                   \* what clean_data returned on its own output
    \* get_common_items
    list1,                  \* argument list1
    list2,                  \* argument list2
    common,                 \* what get_common_items returned (or raised)
    \* training and the auto-k search
    today,                  \* date.today()
    setup_call,             \* arguments of the last pycaret setup() call
    container,              \* pycaret's create_model_container: last fit's silhouette
    artifacts,              \* persisted model files: name -> model
    calls,                  \* the train_clustering_model invocations, in order
    score,                  \* automl_clustering's list of silhouette coefficients
    raised,                 \* the exception that left the call, "none" if none
    returned,               \* the value the call returned, None before it returns
    \* label assignment
    saved_model,            \* argument saved_model: name of a persisted model
    save_output,            \* argument save_output
    out_file_name,          \* argument file_name of the labelling calls (None or str)
    output_format,          \* argument output_format
    outputs,                \* the label files written to the working directory
    \* the API
    uploads,                \* the uploaded CSV files in the working directory
    req,                    \* each request: its parameters and how far it got
    overlapped              \* whether a request started while another was being served

argVars == <<csv, drop_columns, column_drop_threshold, categorical_columns,
             numerical_columns, ignore_features, save_model, file_name>>

cleanVars == <<ret, ret2>>

commonVars == <<list1, list2, common>>

trainVars == <<today, setup_call, container, artifacts, calls, score, raised, returned>>

labelVars == <<saved_model, save_output, out_file_name, output_format, outputs>>

apiVars == <<uploads, req, overlapped>>

vars == <<pc, argVars, cleanVars, commonVars, trainVars, labelVars, apiVars>>

-----------------------------------------------------------------------------
\* Bounds of the model.

\* Most rows a CSV holds.
MaxRows == 3

-----------------------------------------------------------------------------
\* Python values.

None == [tag |-> "None"]

List(s) == [tag |-> "list", items |-> s]

\* bool(v) for None and lists: None and [] are falsy.
Truthy(v) == v.tag = "list" /\ v.items # <<>>

\* A float is kept as the exact fraction num/den; the fractions used are
\* dyadic, so (1 - t) * n is computed without rounding by the float arithmetic.
Float(n, d) == [num |-> n, den |-> d]

\* bool(t) for a float: 0.0 is falsy.
FloatTruthy(t) == t.num # 0

Range(s) == {s[i] : i \in 1..Len(s)}

RECURSIVE Pick(_, _, _)
\* The subsequence of s at the positions of K, from position i on.
Pick(s, K, i) ==
    IF i > Len(s) THEN <<>>
    ELSE (IF i \in K THEN <<s[i]>> ELSE <<>>) \o Pick(s, K, i + 1)

-----------------------------------------------------------------------------
\* DataFrames: ordered column names and rows of cells aligned with them.

NaN == "NaN"

Cells == {NaN, "x"}

ColumnNames == <<"a", "b", "c">>

DataFrame(cols, rows) == [columns |-> cols, rows |-> rows]

EmptyFrame == DataFrame(<<>>, <<>>)

\* df.shape[0]
NRows(df) == Len(df.rows)

\* df.count() of column j: its non-missing entries.
Count(df, j) == Cardinality({r \in 1..NRows(df) : df.rows[r][j] # NaN})

\* The frame restricted to the column positions K.
SelectColumns(df, K) ==
    DataFrame(Pick(df.columns, K, 1),
              [r \in 1..NRows(df) |-> Pick(df.rows[r], K, 1)])

\* The frame restricted to the row positions R.
SelectRows(df, R) == DataFrame(df.columns, Pick(df.rows, R, 1))

\* df.drop(columns=names): KeyError when a name is no column.
DropLabels(df, names) ==
    IF Range(names) \subseteq Range(df.columns)
    THEN [raised |-> "none",
          df |-> SelectColumns(df, {j \in 1..Len(df.columns) :
                                      df.columns[j] \notin Range(names)})]
    ELSE [raised |-> "KeyError", df |-> df]

\* Mutant of DropnaColumns: a column is kept only when count > thresh.
DropnaColumnsStrict(df, t) ==
    SelectColumns(df, {j \in 1..Len(df.columns) :
                         Count(df, j) * t.den > (t.den - t.num) * NRows(df)})

\* df.dropna(axis="columns", thresh=(1 - t) * df.shape[0]): a column is kept
\* when count >= thresh, i.e. count * den >= (den - num) * n.
DropnaColumns(df, t) ==
    SelectColumns(df, {j \in 1..Len(df.columns) :
                         Count(df, j) * t.den >= (t.den - t.num) * NRows(df)})

\* Mutant of DropnaIndex: how="all", a row is dropped only when every cell
\* of it is missing.
DropnaIndexHowAll(df) ==
    SelectRows(df, {r \in 1..NRows(df) :
                      \E j \in 1..Len(df.columns) : df.rows[r][j] # NaN})

\* df.dropna(axis="index"): a row is kept when none of its cells is missing.
DropnaIndex(df) ==
    SelectRows(df, {r \in 1..NRows(df) :
                      \A j \in 1..Len(df.columns) : df.rows[r][j] # NaN})

RECURSIVE Features(_, _)
\* features = []; for feature in df.columns: features.append(feature)
Features(cols, i) ==
    IF i > Len(cols) THEN <<>> ELSE <<cols[i]>> \o Features(cols, i + 1)

\* clean_data(path_to_csv, drop_columns, column_drop_threshold), from the
\* parsed frame on. klib.data_cleaning(df) returns a copy that is discarded.
clean_data(df0, dropc, t) ==
    LET d1 == IF Truthy(dropc) THEN DropLabels(df0, dropc.items)
              ELSE [raised |-> "none", df |-> df0]
        d2 == IF FloatTruthy(t) THEN DropnaColumns(d1.df, t) ELSE d1.df
        d3 == DropnaIndex(d2)
    IN  IF d1.raised # "none"
        THEN [raised |-> d1.raised, df |-> EmptyFrame, features |-> <<>>]
        ELSE [raised |-> "none", df |-> d3, features |-> Features(d3.columns, 1)]

NoReturn == [raised |-> "not called", df |-> EmptyFrame, features |-> <<>>]

\* An exception leaving a call, as a value.
Raised(e) == [tag |-> "raised", exception |-> e]

\* get_common_items(list1, list2). The test parses as
\* `list1 or (list2 is None)`; iterating list1 = None raises TypeError.
get_common_items(l1, l2) ==
    IF Truthy(l1) \/ l2 = None THEN None
    ELSE IF l1 = None THEN Raised("TypeError")
    ELSE List(SelectSeq(l1.items, LAMBDA value : value \in Range(l2.items)))

-----------------------------------------------------------------------------
\* Inputs.

RECURSIVE SeqsUpTo(_, _)
\* The sequences over S of length at most n.
SeqsUpTo(S, n) ==
    IF n = 0 THEN {<<>>}
    ELSE LET shorter == SeqsUpTo(S, n - 1)
         IN  shorter \cup {Append(s, x) : s \in {q \in shorter : Len(q) = n - 1}, x \in S}

DataFrames ==
    {DataFrame(ColumnNames, rows) :
        rows \in SeqsUpTo([1..Len(ColumnNames) -> Cells], MaxRows)}

\* 0 (unset), 0.25, 0.5, 0.75, 1.0
Thresholds == {Float(0, 1), Float(1, 4), Float(1, 2), Float(3, 4), Float(1, 1)}

DropChoices == {None, List(<<>>), List(<<"a">>), List(<<"a", "c">>), List(<<"z">>)}

-----------------------------------------------------------------------------
\* Initial values of the state a specification does not use.

Today == "2021-06-01"

CleanIdle == ret = NoReturn /\ ret2 = NoReturn

ApiIdle == uploads = {} /\ req = <<>> /\ overlapped = FALSE

CommonIdle == list1 = None /\ list2 = None /\ common = None

TrainIdle ==
    /\ today = Today
    /\ setup_call = None
    /\ container = <<>>
    /\ artifacts = {}
    /\ calls = <<>>
    /\ score = <<>>
    /\ raised = "none"
    /\ returned = None

LabelIdle ==
    /\ saved_model = None
    /\ save_output = TRUE
    /\ out_file_name = None
    /\ output_format = "csv"
    /\ outputs = {}

-----------------------------------------------------------------------------
\* clean_data called directly, then once more on its own output.

InitClean ==
    /\ pc = "clean"
    /\ csv \in DataFrames
    /\ drop_columns \in DropChoices
    /\ column_drop_threshold \in Thresholds
    /\ categorical_columns = None
    /\ numerical_columns = None
    /\ ignore_features = None
    /\ save_model = TRUE
    /\ file_name = "cluster_model"
    /\ ApiIdle /\ CleanIdle /\ CommonIdle /\ TrainIdle /\ LabelIdle

CleanData ==
    /\ pc = "clean"
    /\ ret' = clean_data(csv, drop_columns, column_drop_threshold)
    /\ pc' = IF ret'.raised = "none" THEN "cleaned" ELSE "clean raised"
    /\ UNCHANGED <<apiVars, argVars, ret2, commonVars, trainVars, labelVars>>

\* clean_data on the frame it returned, same threshold, drop_columns unset.
CleanAgain ==
    /\ pc = "cleaned"
    /\ ret2' = clean_data(ret.df, None, column_drop_threshold)
    /\ pc' = "cleaned twice"
    /\ UNCHANGED <<apiVars, argVars, ret, commonVars, trainVars, labelVars>>

NextClean == CleanData \/ CleanAgain

SpecClean == InitClean /\ [][NextClean]_vars

\* clean_data has returned normally.
Cleaned == pc \in {"cleaned", "cleaned twice"}

\* The columns of the input that drop_columns does not name.
Unnamed ==
    {j \in 1..Len(csv.columns) :
        ~Truthy(drop_columns) \/ csv.columns[j] \notin Range(drop_columns.items)}

\* Missing entries of column j of the input.
Missing(j) == NRows(csv) - Count(csv, j)

\* C1: with 0 < t <= 1 and n > 0 rows, clean_data drops a column exactly when
\* its fraction of missing entries is >= t (a ratio of exactly t is dropped).
C1_DropAtThreshold ==
    (Cleaned /\ FloatTruthy(column_drop_threshold) /\ NRows(csv) > 0) =>
        \A j \in Unnamed :
            (csv.columns[j] \notin Range(ret.features))
                <=> (Missing(j) * column_drop_threshold.den
                        >= column_drop_threshold.num * NRows(csv))

\* C2: the frame clean_data returns has no missing cell, and the feature list
\* is the ordered column names of that frame.
C2_NoMissingAfterCleaning ==
    Cleaned =>
        /\ \A r \in 1..NRows(ret.df) :
               /\ Len(ret.df.rows[r]) = Len(ret.df.columns)
               /\ \A j \in 1..Len(ret.df.columns) : ret.df.rows[r][j] # NaN
        /\ ret.features = ret.df.columns
        /\ Range(ret.features) \subseteq Range(csv.columns)

\* C2 witness: a call with drop_columns and a threshold set that dropped a
\* column by name, a column by threshold and a row, and returned rows.
C2_Witness ==
    /\ pc = "cleaned"
    /\ Truthy(drop_columns)
    /\ FloatTruthy(column_drop_threshold)
    /\ Len(ret.features) + Len(drop_columns.items) < Len(csv.columns)
    /\ NRows(ret.df) > 0
    /\ NRows(ret.df) < NRows(csv)

\* C9: with drop_columns unset, clean_data on its own output (same threshold)
\* drops no further column and no further row.
C9_CleaningIdempotent ==
    (pc = "cleaned twice" /\ ~Truthy(drop_columns)) =>
        /\ ret2.raised = "none"
        /\ ret2.df = ret.df
        /\ ret2.features = ret.features

\* C9 witness: a second run on the output of a first run that dropped a
\* column and a row and kept both rows and columns.
C9_Witness ==
    /\ pc = "cleaned twice"
    /\ ~Truthy(drop_columns)
    /\ FloatTruthy(column_drop_threshold)
    /\ Len(ret.features) \in 1..(Len(csv.columns) - 1)
    /\ NRows(ret.df) \in 1..(NRows(csv) - 1)

-----------------------------------------------------------------------------
\* get_common_items on its own.

\* Longest list handed to get_common_items.
MaxLen == 3

Names == {"a", "b", "c", "d"}

\* Lists without repeated names, as column lists are.
NameLists ==
    {List(q) : q \in {x \in SeqsUpTo(Names, MaxLen) :
                        Cardinality(Range(x)) = Len(x)}}

InitCommon ==
    /\ pc = "common"
    /\ list1 \in NameLists \cup {None}
    /\ list2 \in NameLists \cup {None}
    /\ common = None
    /\ csv = EmptyFrame
    /\ drop_columns = None
    /\ column_drop_threshold = Float(0, 1)
    /\ categorical_columns = None
    /\ numerical_columns = None
    /\ ignore_features = None
    /\ save_model = TRUE
    /\ file_name = "cluster_model"
    /\ ApiIdle /\ CleanIdle /\ TrainIdle /\ LabelIdle

GetCommonItems ==
    /\ pc = "common"
    /\ common' = get_common_items(list1, list2)
    /\ pc' = IF common'.tag = "raised" THEN "common raised" ELSE "common returned"
    /\ UNCHANGED <<apiVars, argVars, cleanVars, list1, list2, trainVars, labelVars>>

NextCommon == GetCommonItems

SpecCommon == InitCommon /\ [][NextCommon]_vars

CommonDone == pc \in {"common returned", "common raised"}

\* The declared names (list2) that are also surviving names (list1).
Intersection == {x \in Range(list2.items) : x \in Range(list1.items)}

\* C5: for a non-empty surviving list and a non-empty declared list,
\* get_common_items returns the list of exactly the declared names that are
\* also surviving names, without error.
C5_ReturnsIntersection ==
    (CommonDone /\ Truthy(list1) /\ Truthy(list2)) =>
        /\ common.tag = "list"
        /\ Range(common.items) = Intersection
        /\ Len(common.items) = Cardinality(Intersection)

\* C6: for a non-empty surviving list, get_common_items returns None when the
\* declared list is None or empty, and an explicit empty list (not None) when
\* the declared list is non-empty and shares no name with the surviving list.
C6_UnsetVersusEmpty ==
    (CommonDone /\ Truthy(list1)) =>
        /\ (list2 = None \/ list2 = List(<<>>)) => common = None
        /\ (Truthy(list2) /\ Intersection = {}) => common = List(<<>>)

-----------------------------------------------------------------------------
\* train_clustering_model.

\* Largest silhouette coefficient a fit reports, in hundredths.
MaxScore == 1

\* A file of the working directory: "{stem}_{date}.{ext}", or "{stem}.{ext}"
\* when date is "".
File(stem, date, ext) == [stem |-> stem, date |-> date, ext |-> ext]

\* Mutant of Write: a file that exists is left as it is.
WriteKeep(files, name, content) ==
    IF \E f \in files : f.name = name THEN files
    ELSE files \cup {[name |-> name, content |-> content]}

\* Writing a file replaces the file of that name.
Write(files, name, content) ==
    {f \in files : f.name # name} \cup {[name |-> name, content |-> content]}

\* The fitted k-means model create_model("kmeans", num_clusters=k) returns.
Model(k) == [tag |-> "kmeans", k |-> k]

\* What pycaret does with a setup()/create_model() pair: it raises, or it
\* fits and reports a silhouette coefficient.
FitOutcomes ==
    {[ok |-> FALSE, silhouette |-> 0]}
        \cup {[ok |-> TRUE, silhouette |-> x] : x \in 0..MaxScore}

\* The arguments of one train_clustering_model invocation.
Call(k) ==
    [k |-> k,
     path_to_csv |-> csv,
     column_drop_threshold |-> column_drop_threshold,
     save_model |-> save_model,
     file_name |-> file_name,
     drop_columns |-> drop_columns,
     categorical_columns |-> categorical_columns,
     numerical_columns |-> numerical_columns,
     ignore_features |-> ignore_features]

\* train_clustering_model(**c) with pycaret's outcome fit: the new values of
\* the state it touches, the exception it raises and the value it returns.
\* clean_data is called without c.drop_columns.
train_clustering_model(c, fit) ==
    LET cleaned == clean_data(c.path_to_csv, None, c.column_drop_threshold)
        features == List(cleaned.features)
        cat == get_common_items(features, c.categorical_columns)
        num == get_common_items(features, c.numerical_columns)
        reconciled == cat.tag # "raised" /\ num.tag # "raised"
        fitted == reconciled /\ fit.ok
        name == File(c.file_name, today, "pkl")
    IN  [raised |-> IF ~reconciled THEN "TypeError"
                    ELSE IF ~fit.ok THEN "pycaret error" ELSE "none",
         setup_call |-> IF reconciled
                        THEN [data |-> cleaned.df,
                              features |-> cleaned.features,
                              ignore_features |-> c.ignore_features,
                              categorical_features |-> cat,
                              numeric_features |-> num]
                        ELSE setup_call,
         container |-> IF fitted THEN <<fit.silhouette>> ELSE container,
         artifacts |-> IF fitted /\ c.save_model
                       THEN Write(artifacts, name, Model(c.k))
                       ELSE artifacts,
         returned |-> IF ~fitted THEN None
                      ELSE IF c.save_model
                           THEN [tag |-> "tuple", model |-> Model(c.k), file |-> name]
                           ELSE Model(c.k)]

RoleChoices == {None, List(<<"b">>), List(<<"b", "d">>)}

InitTrain ==
    /\ pc = "train"
    /\ csv \in DataFrames
    /\ drop_columns \in DropChoices
    /\ column_drop_threshold \in {Float(0, 1), Float(1, 2), Float(1, 1)}
    /\ categorical_columns \in RoleChoices
    /\ numerical_columns = None
    /\ ignore_features = None
    /\ save_model \in BOOLEAN
    /\ file_name = "cluster_model"
    /\ ApiIdle /\ CleanIdle /\ CommonIdle /\ TrainIdle /\ LabelIdle

Train ==
    /\ pc = "train"
    /\ \E k \in {3}, fit \in FitOutcomes :
         \E t \in {train_clustering_model(Call(k), fit)} :
             /\ calls' = Append(calls, Call(k))
             /\ setup_call' = t.setup_call
             /\ container' = t.container
             /\ artifacts' = t.artifacts
             /\ raised' = t.raised
             /\ returned' = t.returned
             /\ pc' = IF t.raised = "none" THEN "trained" ELSE "train raised"
    /\ UNCHANGED <<apiVars, argVars, cleanVars, commonVars, today, score, labelVars>>

NextTrain == Train

SpecTrain == InitTrain /\ [][NextTrain]_vars

\* C3: after train_clustering_model is called with a non-empty drop_columns,
\* none of the named columns is in the frame handed to setup() nor in the
\* surviving-features list used for feature reconciliation.
C3_NamedColumnsRemoved ==
    (pc \in {"trained", "train raised"} /\ Truthy(drop_columns)
            /\ setup_call # None) =>
        /\ Range(drop_columns.items) \cap Range(setup_call.data.columns) = {}
        /\ Range(drop_columns.items) \cap Range(setup_call.features) = {}

-----------------------------------------------------------------------------
\* automl_clustering.

\* Mutant of k_space: the search space stops at 9.
k_space_short == <<3, 4, 5, 6, 7, 8, 9>>

\* k_space = [3, 4, 5, 6, 7, 8, 9, 10]
k_space == <<3, 4, 5, 6, 7, 8, 9, 10>>

\* max(score)
Max(s) == CHOOSE m \in Range(s) : \A x \in Range(s) : x <= m

\* Mutant of Index: the position of the last occurrence of v.
IndexLast(s, v) ==
    CHOOSE i \in 1..Len(s) : s[i] = v /\ \A j \in (i + 1)..Len(s) : s[j] # v

\* score.index(v): the position of the first occurrence of v (from 1).
Index(s, v) ==
    CHOOSE i \in 1..Len(s) : s[i] = v /\ \A j \in 1..(i - 1) : s[j] # v

\* index_best_k = score.index(max(score))
index_best_k(s) == Index(s, Max(s))

\* Mutant of AfterCandidate: a failed candidate is skipped.
AfterCandidateSkip(exc, i) ==
    IF i < Len(k_space) THEN "auto loop" ELSE "auto select"

\* Where automl_clustering goes after training candidate i: an exception
\* leaves the function, otherwise the loop goes on or ends.
AfterCandidate(exc, i) ==
    IF exc # "none" THEN "auto raised"
    ELSE IF i < Len(k_space) THEN "auto loop" ELSE "auto select"

\* The silhouette coefficients of the example run, in hundredths.
ExampleScores == <<10, 20, 90, 30, 20, 10, 5, 40>>

\* pycaret's outcomes for the fit of candidate i: the runs are those whose
\* coefficients all lie in 0..MaxScore, and the example run.
CandidateOutcomes(i) ==
    IF score # <<>> /\ score[1] = ExampleScores[1]
    THEN {[ok |-> FALSE, silhouette |-> 0], [ok |-> TRUE, silhouette |-> ExampleScores[i]]}
    ELSE FitOutcomes \cup (IF i = 1
                           THEN {[ok |-> TRUE, silhouette |-> ExampleScores[1]]}
                           ELSE {})

SampleFrame ==
    DataFrame(ColumnNames, <<<<"x", "x", "x">>, <<"x", NaN, "x">>, <<"x", "x", "x">>>>)

InitAuto ==
    /\ pc = "auto loop"
    /\ csv = SampleFrame
    /\ drop_columns \in {None, List(<<"a">>)}
    /\ column_drop_threshold = Float(3, 4)
    /\ categorical_columns = List(<<"b">>)
    /\ numerical_columns = None
    /\ ignore_features = None
    /\ save_model \in BOOLEAN
    /\ file_name = "cluster_model"
    /\ ApiIdle /\ CleanIdle /\ CommonIdle /\ TrainIdle /\ LabelIdle

\* One pass of `for k in k_space`: train candidate k, then append the
\* silhouette read from pycaret's container.
AutoCandidate ==
    /\ pc = "auto loop"
    /\ LET i == Len(calls) + 1
           c == Call(k_space[i])
       IN  \E fit \in CandidateOutcomes(i) :
             \E t \in {train_clustering_model(c, fit)} :
                 /\ calls' = Append(calls, c)
                 /\ setup_call' = t.setup_call
                 /\ container' = t.container
                 /\ artifacts' = t.artifacts
                 /\ raised' = t.raised
                 /\ score' = IF t.raised = "none"
                             THEN Append(score, t.container[1]) ELSE score
                 /\ pc' = AfterCandidate(t.raised, i)
    /\ UNCHANGED <<apiVars, argVars, cleanVars, commonVars, today, returned, labelVars>>

\* After the loop: pick the best k and return train_clustering_model for it.
AutoFinal ==
    /\ pc = "auto select"
    /\ LET c == Call(k_space[index_best_k(score)])
       IN  \E fit \in FitOutcomes :
             \E t \in {train_clustering_model(c, fit)} :
                 /\ calls' = Append(calls, c)
                 /\ setup_call' = t.setup_call
                 /\ container' = t.container
                 /\ artifacts' = t.artifacts
                 /\ raised' = t.raised
                 /\ returned' = t.returned
                 /\ pc' = IF t.raised = "none" THEN "auto returned" ELSE "auto raised"
    /\ UNCHANGED <<apiVars, argVars, cleanVars, commonVars, today, score, labelVars>>

NextAuto == AutoCandidate \/ AutoFinal

SpecAuto == InitAuto /\ [][NextAuto]_vars

\* automl_clustering has gone past the selection of the best k.
Selected == pc \in {"auto returned", "auto raised"} /\ Len(calls) > Len(score)
                /\ Len(score) = Len(k_space)

\* The k of the invocation made after the loop.
Winner == calls[Len(calls)].k

\* C4: the k selected from the 8 recorded scores of k = 3..10 is the
\* candidate with the maximum score, the earliest one on ties; it is one of
\* 3..10, and the example scores select k = 5.
C4_SelectsFirstMaximum ==
    Selected =>
        /\ Len(score) = 8
        /\ Winner \in 3..10
        /\ \A j \in 1..8 : score[j] <= score[Winner - 2]
        /\ \A j \in 1..(Winner - 3) : score[j] < score[Winner - 2]
        /\ score = ExampleScores => Winner = 5

\* C4 witness: a finished search whose maximum score is recorded for more
\* than one candidate, the first of them not being k = 3.
C4_Witness ==
    /\ pc = "auto returned"
    /\ Len(score) = 8
    /\ Cardinality({j \in 1..8 : score[j] = Max(score)}) > 1
    /\ score[1] < Max(score)

\* C8: when train_clustering_model raises for a candidate k, the search ends
\* with that exception there: every earlier candidate has its score, no later
\* candidate and no final re-training is invoked, and nothing is returned.
C8_FailureAborts ==
    raised # "none" =>
        /\ pc = "auto raised"
        /\ returned = None
        /\ Len(score) = Len(calls) - 1
        /\ \A j \in 1..Len(calls) : j <= 8 => calls[j].k = j + 2
        /\ Len(calls) <= 9

\* C8 witness: the search ended by the failure of a candidate after some
\* candidates were scored and before the last candidate.
C8_Witness ==
    /\ pc = "auto raised"
    /\ raised = "pycaret error"
    /\ Len(calls) \in 3..7
    /\ Len(score) = Len(calls) - 1

\* C10: a successful automl_clustering invoked train_clustering_model 9
\* times, for k = 3..10 in order, one score recorded per candidate, then once
\* for the winning k; it returns what that last invocation returned, and
\* every invocation got the arguments automl_clustering was given.
C10_NineInvocations ==
    /\ (pc = "auto loop" /\ raised = "none") => Len(score) = Len(calls)
    /\ pc = "auto returned" =>
        /\ Len(calls) = 9
        /\ Len(score) = 8
        /\ \A j \in 1..8 : calls[j].k = j + 2
        /\ calls[9].k = k_space[index_best_k(score)]
        /\ returned = (IF save_model
                       THEN [tag |-> "tuple", model |-> Model(calls[9].k),
                             file |-> File(file_name, today, "pkl")]
                       ELSE Model(calls[9].k))
        /\ \A j \in 1..9 : calls[j] = Call(calls[j].k)

\* C10 witness: a successful search that saved its models and whose winner
\* is neither the first nor the last candidate.
C10_Witness ==
    /\ pc = "auto returned"
    /\ save_model
    /\ Truthy(drop_columns)
    /\ Len(calls) = 9
    /\ calls[9].k \in 4..9

-----------------------------------------------------------------------------
\* assign_cluster_labels and predict_cluster_label.

\* A string naming a file without its extension: "{stem}_{date}", or "{stem}".
Str(stem, date) == [tag |-> "str", stem |-> stem, date |-> date]

\* The labelled frame assign_model / predict_model produce from a model.
Labelled(how, model) == [tag |-> "labelled", how |-> how, model |-> model]

\* The part both labelling functions share, from load_model on: the file
\* written, the exception raised and the value returned. to_csv and to_json
\* with a path return None; an output_format that is neither "csv" nor "json"
\* falls off the end of the function, which returns None.
label_output(how, sm, so, fn, fmt) ==
    LET pkl == File(sm.stem, sm.date, "pkl")
        found == {f \in artifacts : f.name = pkl}
        model == (CHOOSE f \in found : TRUE).content
        name == IF fn = None THEN sm ELSE fn
    IN  IF found = {}
        THEN [raised |-> "FileNotFoundError", outputs |-> outputs, returned |-> None]
        ELSE IF ~so
        THEN [raised |-> "none", outputs |-> outputs,
              returned |-> Labelled(how, model)]
        ELSE IF fmt = "csv"
        THEN [raised |-> "none",
              outputs |-> Write(outputs, File(name.stem, name.date, "csv"),
                                Labelled(how, model)),
              returned |-> None]
        ELSE IF fmt = "json"
        THEN [raised |-> "none",
              outputs |-> Write(outputs, File(name.stem, name.date, "json"),
                                Labelled(how, model)),
              returned |-> None]
        ELSE [raised |-> "none", outputs |-> outputs, returned |-> None]

Formats == {"csv", "json", "xml", "parquet", "CSV", ""}

InitLabels ==
    /\ pc = "label"
    /\ artifacts \in {{}, {[name |-> File("cluster_model", Today, "pkl"),
                           content |-> Model(3)]}}
    /\ saved_model = Str("cluster_model", Today)
    /\ save_output \in BOOLEAN
    /\ out_file_name \in {None, Str("labels", "")}
    /\ output_format \in Formats
    /\ outputs = {}
    /\ csv = SampleFrame
    /\ drop_columns = None
    /\ column_drop_threshold = Float(0, 1)
    /\ categorical_columns = None
    /\ numerical_columns = None
    /\ ignore_features = None
    /\ save_model = TRUE
    /\ file_name = "cluster_model"
    /\ today = Today
    /\ setup_call = None
    /\ container = <<>>
    /\ calls = <<>>
    /\ score = <<>>
    /\ raised = "none"
    /\ returned = None
    /\ ApiIdle /\ CleanIdle /\ CommonIdle

AssignClusterLabels ==
    /\ pc = "label"
    /\ \E r \in {label_output("assign_model", saved_model, save_output,
                              out_file_name, output_format)} :
         /\ outputs' = r.outputs
         /\ raised' = r.raised
         /\ returned' = r.returned
         /\ pc' = IF r.raised = "none" THEN "assign returned" ELSE "assign raised"
    /\ UNCHANGED <<apiVars, argVars, cleanVars, commonVars, today, setup_call, container,
                   artifacts, calls, score, saved_model, save_output,
                   out_file_name, output_format>>

\* predict_cluster_label reads path_to_csv before it loads the model.
PredictClusterLabel ==
    /\ pc = "label"
    /\ \E r \in {label_output("predict_model", saved_model, save_output,
                              out_file_name, output_format)} :
         /\ outputs' = r.outputs
         /\ raised' = r.raised
         /\ returned' = r.returned
         /\ pc' = IF r.raised = "none" THEN "predict returned" ELSE "predict raised"
    /\ UNCHANGED <<apiVars, argVars, cleanVars, commonVars, today, setup_call, container,
                   artifacts, calls, score, saved_model, save_output,
                   out_file_name, output_format>>

NextLabels == AssignClusterLabels \/ PredictClusterLabel

SpecLabels == InitLabels /\ [][NextLabels]_vars

\* C7: assign_cluster_labels and predict_cluster_label, called with
\* save_output=True and an output_format other than "csv" and "json", end in
\* an error and write no file; they never return normally.
C7_UnsupportedFormatFails ==
    (pc # "label" /\ save_output /\ output_format \notin {"csv", "json"}) =>
        /\ raised # "none"
        /\ pc \in {"assign raised", "predict raised"}
        /\ outputs = {}

-----------------------------------------------------------------------------
\* get_common_items with a None argument.

\* C13: whenever list1 or list2 (or both) is None, get_common_items returns
\* None and raises nothing: it never iterates a None argument.
C13_NoneNeverIterated ==
    (CommonDone /\ (list1 = None \/ list2 = None)) =>
        /\ pc = "common returned"
        /\ common = None

-----------------------------------------------------------------------------
\* The auto-clustering endpoints: automl_clustering with save_model=True,
\* then assign_cluster_labels on the model file named with today's date.

\* The date after Today.
NextDay == "2021-06-02"

InitAutoEndpoint ==
    /\ pc = "auto loop"
    /\ csv = SampleFrame
    /\ drop_columns = None
    /\ column_drop_threshold = Float(3, 4)
    /\ categorical_columns = List(<<"b">>)
    /\ numerical_columns = None
    /\ ignore_features = None
    /\ save_model = TRUE
    /\ file_name = "cluster_model"
    /\ output_format \in {"csv", "xml"}
    /\ saved_model = None
    /\ save_output = TRUE
    /\ out_file_name = None
    /\ outputs = {}
    /\ ApiIdle /\ CleanIdle /\ CommonIdle /\ TrainIdle

\* The date changes while the request is served.
Midnight ==
    /\ pc \in {"auto loop", "auto select", "auto returned"}
    /\ today = Today
    /\ today' = NextDay
    /\ UNCHANGED <<pc, apiVars, argVars, cleanVars, commonVars, setup_call, container,
                   artifacts, calls, score, raised, returned, labelVars>>

\* assign_cluster_labels(saved_model=f"{file_name}_{date.today()}",
\* save_output=True, file_name=file_name, output_format=output_format)
EndpointAssign ==
    /\ pc = "auto returned"
    /\ saved_model' = Str(file_name, today)
    /\ save_output' = TRUE
    /\ out_file_name' = Str(file_name, "")
    /\ \E r \in {label_output("assign_model", Str(file_name, today), TRUE,
                              Str(file_name, ""), output_format)} :
         /\ outputs' = r.outputs
         /\ raised' = r.raised
         /\ returned' = r.returned
         /\ pc' = IF r.raised = "none" THEN "endpoint assigned" ELSE "endpoint raised"
    /\ UNCHANGED <<apiVars, argVars, cleanVars, commonVars, today, setup_call, container,
                   artifacts, calls, score, output_format>>

NextAutoEndpoint == AutoCandidate \/ AutoFinal \/ Midnight \/ EndpointAssign

SpecAutoEndpoint == InitAutoEndpoint /\ [][NextAutoEndpoint]_vars

\* automl_clustering returned and the date did not change since it started.
AutoDoneSameDay ==
    pc \in {"auto returned", "endpoint assigned", "endpoint raised"} /\ today = Today

\* C11: after a successful automl_clustering with save_model=True and no
\* change of date, the one persisted file {file_name}_{date} holds the model
\* of the winning k, and the assign_cluster_labels call the endpoint makes
\* next loads that model and labels with it.
C11_ArtifactHoldsWinner ==
    AutoDoneSameDay =>
        /\ artifacts = {[name |-> File(file_name, Today, "pkl"),
                         content |-> Model(k_space[index_best_k(score)])]}
        /\ pc # "endpoint raised"
        /\ pc = "endpoint assigned" =>
             \A f \in outputs :
                 f.content = Labelled("assign_model",
                                      Model(k_space[index_best_k(score)]))
        /\ (pc = "endpoint assigned" /\ output_format \in {"csv", "json"}) =>
             \E f \in outputs : f.name = File(file_name, "", output_format)

\* C11 witness: the endpoint wrote the labels on the day the search started,
\* and the winner is neither the first nor the last candidate.
C11_Witness ==
    /\ pc = "endpoint assigned"
    /\ today = Today
    /\ output_format = "csv"
    /\ outputs # {}
    /\ k_space[index_best_k(score)] \in 4..9
    /\ \A f \in outputs : f.content.model.k \in 4..9

-----------------------------------------------------------------------------
\* The /clustering endpoint served for two requests that share the working
\* directory; each is a thread of the server's pool.

Requests == {"A", "B"}

Other(r) == CHOOSE q \in Requests : q # r

\* path_to_csv.filename of the upload of request r.
UploadPath(r) == IF r = "A" THEN "a.csv" ELSE "b.csv"

\* The file save_to_disk writes for request r.
Upload(r) == File(IF r = "A" THEN "a" ELSE "b", "", "csv")

\* The content of the upload of request r.
UploadFrame(r) ==
    IF r = "A" THEN SampleFrame
    ELSE DataFrame(ColumnNames, <<<<"x", "x", "x">>, <<"x", "x", "x">>>>)

\* The form field k of request r.
RequestK(r) == IF r = "A" THEN 3 ELSE 4

\* Mutant of file_extensions: model files are not matched.
file_extensions_no_pkl == {"csv", "json"}

\* file_extensions = [".pkl", ".csv", ".json"]
file_extensions == {"pkl", "csv", "json"}

\* The files of the working directory, os.getcwd().
cwd == uploads \cup artifacts \cup outputs

\* The names delete_temp's loops select from os.listdir(path).
Matching(files) == {f.name : f \in {g \in files : g.name.ext \in file_extensions}}

\* The files left when those named in names are removed.
Remove(files, names) == {f \in files : f.name \notin names}

\* A request is being served: it started and did not end.
Active(r) == req[r].pc \in {"uploaded", "trained", "assigned", "sent", "removing"}

InitApi ==
    /\ pc = "api"
    /\ uploads = {}
    /\ req \in [Requests -> [pc : {"idle"},
                             file_name : {"cluster_model", "other_model"},
                             output_format : {"csv", "json", "xml"},
                             listing : {{}},
                             response : {None},
                             exc : {"none"}]]
    /\ req["A"].file_name = "cluster_model"
    /\ req["A"].output_format = "csv"
    /\ overlapped = FALSE
    /\ csv = SampleFrame
    /\ drop_columns = None
    /\ column_drop_threshold = Float(3, 4)
    /\ categorical_columns = None
    /\ numerical_columns = None
    /\ ignore_features = None
    /\ save_model = TRUE
    /\ file_name = "cluster_model"
    /\ CleanIdle /\ CommonIdle /\ TrainIdle /\ LabelIdle

Goto(r, to) == req' = [req EXCEPT ![r].pc = to]

Fail(r, e) == req' = [req EXCEPT ![r].pc = "failed", ![r].exc = e]

\* save_to_disk(path_to_csv)
SaveToDisk(r) ==
    /\ req[r].pc = "idle"
    /\ uploads' = Write(uploads, Upload(r), UploadFrame(r))
    /\ overlapped' = (overlapped \/ Active(Other(r)))
    /\ Goto(r, "uploaded")
    /\ UNCHANGED <<pc, argVars, cleanVars, commonVars, trainVars, labelVars>>

\* What clean_data's pd.read_csv gives for the upload of r: the file, or,
\* the file being gone, the path parsed as CSV text: one header, no row.
ReadCsv(r) ==
    IF \E f \in uploads : f.name = Upload(r)
    THEN (CHOOSE f \in uploads : f.name = Upload(r)).content
    ELSE DataFrame(<<UploadPath(r)>>, <<>>)

\* train_clustering_model(path_to_csv=path_to_csv.filename, k=k, ...,
\* save_model=True, file_name=file_name, ...); no fit succeeds without rows.
ApiTrain(r) ==
    /\ req[r].pc = "uploaded"
    /\ \E fit \in {f \in FitOutcomes : f.ok => NRows(ReadCsv(r)) > 0} :
         \E t \in {train_clustering_model(
                      [Call(RequestK(r)) EXCEPT !.path_to_csv = ReadCsv(r),
                                                !.save_model = TRUE,
                                                !.file_name = req[r].file_name],
                      fit)} :
             /\ setup_call' = t.setup_call
             /\ container' = t.container
             /\ artifacts' = t.artifacts
             /\ IF t.raised = "none" THEN Goto(r, "trained") ELSE Fail(r, t.raised)
    /\ UNCHANGED <<pc, argVars, cleanVars, commonVars, today, calls, score, raised,
                   returned, labelVars, uploads, overlapped>>

\* assign_cluster_labels(saved_model=f"{file_name}_{date.today()}",
\* save_output=True, file_name=file_name, output_format=output_format)
ApiAssign(r) ==
    /\ req[r].pc = "trained"
    /\ \E l \in {label_output("assign_model", Str(req[r].file_name, today), TRUE,
                              Str(req[r].file_name, ""), req[r].output_format)} :
         /\ outputs' = l.outputs
         /\ IF l.raised = "none" THEN Goto(r, "assigned") ELSE Fail(r, l.raised)
    /\ UNCHANGED <<pc, argVars, cleanVars, commonVars, trainVars, saved_model,
                   save_output, out_file_name, output_format, uploads, overlapped>>

\* cluster_labels is bound for "json" and "csv" only; FileResponse sends the
\* file of that name as it is when the response is sent, and fails when there
\* is none. The background task runs after a response that was sent.
ApiRespond(r) ==
    /\ req[r].pc = "assigned"
    /\ LET name == File(req[r].file_name, "", req[r].output_format)
           found == {f \in outputs : f.name = name}
       IN  IF req[r].output_format \notin {"json", "csv"}
           THEN Fail(r, "UnboundLocalError")
           ELSE IF found = {}
           THEN Fail(r, "RuntimeError")
           ELSE req' = [req EXCEPT ![r].pc = "sent",
                                   ![r].response = (CHOOSE f \in found : TRUE).content]
    /\ UNCHANGED <<pc, argVars, cleanVars, commonVars, trainVars, labelVars,
                   uploads, overlapped>>

\* delete_temp: os.listdir(path)
DeleteTempList(r) ==
    /\ req[r].pc = "sent"
    /\ req' = [req EXCEPT ![r].pc = "removing", ![r].listing = Matching(cwd)]
    /\ UNCHANGED <<pc, argVars, cleanVars, commonVars, trainVars, labelVars,
                   uploads, overlapped>>

\* delete_temp: os.remove of every listed file. A listed file that is gone
\* makes os.remove raise, after any part of the others was removed.
DeleteTempRemove(r) ==
    /\ req[r].pc = "removing"
    /\ LET present == {f.name : f \in cwd}
       IN  IF req[r].listing \subseteq present
           THEN /\ uploads' = Remove(uploads, req[r].listing)
                /\ artifacts' = Remove(artifacts, req[r].listing)
                /\ outputs' = Remove(outputs, req[r].listing)
                /\ Goto(r, "done")
           ELSE \E removed \in SUBSET (req[r].listing \cap present) :
                /\ uploads' = Remove(uploads, removed)
                /\ artifacts' = Remove(artifacts, removed)
                /\ outputs' = Remove(outputs, removed)
                /\ req' = [req EXCEPT ![r].pc = "cleanup raised",
                                      ![r].exc = "FileNotFoundError"]
    /\ UNCHANGED <<pc, argVars, cleanVars, commonVars, today, setup_call, container,
                   calls, score, raised, returned, saved_model, save_output,
                   out_file_name, output_format, overlapped>>

NextApi ==
    \E r \in Requests :
        \/ SaveToDisk(r)
        \/ ApiTrain(r)
        \/ ApiAssign(r)
        \/ ApiRespond(r)
        \/ DeleteTempList(r)
        \/ DeleteTempRemove(r)

SpecApi == InitApi /\ [][NextApi]_vars

\* Request r made a file it has not yet used, and no file of that name is
\* in the working directory: the upload before training reads it, the model
\* before assign_cluster_labels loads it, the labels before they are sent.
LiveMissing(r) ==
    \/ /\ req[r].pc = "uploaded"
       /\ \A f \in uploads : f.name # Upload(r)
    \/ /\ req[r].pc = "trained"
       /\ \A f \in artifacts : f.name # File(req[r].file_name, today, "pkl")
    \/ /\ req[r].pc = "assigned"
       /\ req[r].output_format \in {"csv", "json"}
       /\ \A f \in outputs :
              f.name # File(req[r].file_name, "", req[r].output_format)

\* The delete_temp of request r has removed files.
Cleaned_up(r) == req[r].pc \in {"done", "cleanup raised"}

\* C12: delete_temp runs only after its request's response file was produced
\* and sent, and it removes every .pkl/.csv/.json file of the directory, its
\* own or not; a file a request still needs can be missing only when the
\* requests overlapped and the other request's delete_temp has run. With one
\* request at a time no request loses a file, each response is the request's
\* own labels, and the directory is empty after delete_temp.
C12_SharedDirectoryCleanup ==
    \A r \in Requests :
        /\ req[r].pc \in {"sent", "removing", "done", "cleanup raised"} =>
               req[r].response # None
        /\ LiveMissing(r) => (overlapped /\ Cleaned_up(Other(r)))
        /\ ~overlapped =>
               /\ req[r].exc \notin {"FileNotFoundError", "RuntimeError"}
               /\ req[r].response # None =>
                      req[r].response
                          = Labelled("assign_model", Model(RequestK(r)))
               /\ (req[r].pc = "done" /\ req[Other(r)].pc \in {"idle", "done"}) =>
                      cwd = {}

\* C12 witness: request r has persisted its model under a name of its own
\* and has not loaded it yet, and the other request's delete_temp has
\* removed it.
C12_Witness ==
    \E r \in Requests :
        /\ req[r].pc = "trained"
        /\ LiveMissing(r)
        /\ req[r].file_name # req[Other(r)].file_name
        /\ req[Other(r)].pc = "done"

====
